---- MODULE Spec2Model ----
(***************************************************************************)
(* Signaling orchestration of the mediasoup video conference: the server   *)
(* (server.js: peers/rooms maps, one async handler per WebSocket message)  *)
(* and the browser client (client.js: state object, routeServerMessage).   *)
(* Every await on the media engine is a suspension point: the part of a    *)
(* handler before the await and the part after it are separate steps.      *)
(***************************************************************************)
EXTENDS Integers, Sequences, FiniteSets, Bags, TLC

\* ------------------------------------------------------------------ bounds
NumPeers == 2
MaxJoinClicks == 2
MaxMemberships == 3
MaxObjects == 4
MaxAwaiting == 1
MaxUnread == 3

PeerIds == 1 .. NumPeers
RoomIds == {"r1", "r2"}
Kinds == <<"video", "audio">>
Directions == {"send", "recv"}
NoRoom == "null"
\* the keys the rooms Map can get: a room name, or the null/undefined of a
\* joinRoom frame that carries no room name
RoomKeys == RoomIds \cup {NoRoom}
NoId == <<>>
NoKind == "none"
\* an id the engine never handed out
BogusId == <<0, 0>>
\* no handlePeerDisconnection is between two of its statements
NoStep == <<>>

VARIABLES
  peers,            \* server: keys of the peers Map
  peerRoomId,       \* server: peer.roomId of each peer object
  peerTransports,   \* server: peer.transports (insertion-ordered Map)
  peerProducers,    \* server: peer.producers (insertion-ordered Map)
  peerConsumers,    \* server: peer.consumers (insertion-ordered Map)
  rooms,            \* server: rooms Map, roomId -> insertion-ordered peers Set
  awaiting,         \* server handlers suspended on a media-engine call (a bag)
  closedTransports, \* engine: transports on which close() was called
  resumedConsumers, \* engine: consumers on which resume() was called
  socketState,      \* the WebSocket of each peer: "none", "open", "closed"
  toServer,         \* frames in flight client -> server, per connection
  toClient,         \* frames in flight server -> client, per connection
  stateRoomId,      \* client: state.roomId
  stateDevice,      \* client: state.device (and state.localStream) is set
  stateSendTransport, \* client: state.sendTransport (its id, or NoId)
  stateRecvTransport, \* client: state.recvTransport (its id, or NoId)
  stateConsumers,   \* client: keys of state.consumers
  pendingConsumers, \* client: state.pendingConsumers
  producing,        \* client: kind whose 'produced' reply produceMedia awaits
  conferenceShown,  \* client: the conference section (not the join form) shows
  requestLog,       \* client: the 'Requesting to consume ...' lines it logged
  joinClicks,       \* how many times handleJoinRoom ran, all browsers together
  disconnecting,    \* server: how far a running handlePeerDisconnection has come
  workerState,      \* engine: the mediasoup worker, "running" or "died"
  processState      \* server: the Node process, "running" or "exited"

peerVars == <<peers, peerRoomId, peerTransports, peerProducers, peerConsumers>>
engineVars == <<closedTransports, resumedConsumers>>
processVars == <<workerState, processState>>
serverVars == <<peerVars, rooms, awaiting, engineVars, disconnecting, processVars>>
clientVars == <<stateRoomId, stateDevice, stateSendTransport, stateRecvTransport,
                stateConsumers, pendingConsumers, producing, conferenceShown,
                requestLog, joinClicks>>
vars == <<serverVars, socketState, toServer, toClient, clientVars>>

\* ----------------------------------------------------------------- helpers
Range(s) == {s[i] : i \in 1 .. Len(s)}

\* Set.prototype.add on an insertion-ordered Set
SetAdd(s, x) == IF x \in Range(s) THEN s ELSE Append(s, x)

\* Set.prototype.delete on an insertion-ordered Set
SetDelete(s, x) == SelectSeq(s, LAMBDA y : y # x)

RECURSIVE Flatten(_)
\* peerInfo.producers of every queued entry, in the order of the two forEach
Flatten(q) ==
  IF q = <<>> THEN <<>> ELSE Head(q).producers \o Flatten(Tail(q))

\* sendMessage of the server: a frame is written only to an OPEN socket
sendMessage(out, p, m) ==
  IF socketState[p] = "open" THEN [out EXCEPT ![p] = Append(@, m)] ELSE out

\* sendMessage of the client: same guard on the client's side of the socket
clientSend(in, p, ms) ==
  IF socketState[p] = "open" THEN [in EXCEPT ![p] = @ \o ms] ELSE in

\* variant: a router that can serve every capability set
canConsumeAnything(producerId, rtpCapabilities) == TRUE

\* mediasoupRouter.canConsume({producerId, rtpCapabilities})
canConsume(producerId, rtpCapabilities) == rtpCapabilities = "device"

\* rooms.has(roomId) is false: no entry under that key
NoRoomEntry == [present |-> FALSE, peers |-> <<>>]

\* the ids of the entries of a Map kept as a sequence of records
Ids(map) == {map[i].id : i \in 1 .. Len(map)}

\* variant: the catch only logs the error
errorReplyOmitted(p, message) == toClient

\* variant: the error is written twice
errorReplyTwice(p, message) ==
  [toClient EXCEPT ![p] = @ \o <<[type |-> "error", message |-> message],
                                 [type |-> "error", message |-> message]>>]

\* variant: the error is written to every connection
errorReplyToEveryone(p, message) ==
  [q \in PeerIds |->
     sendMessage(toClient, q, [type |-> "error", message |-> message])[q]]

\* the catch of socket.on('message'): an error reply to the requester
errorReply(p, message) ==
  sendMessage(toClient, p, [type |-> "error", message |-> message])

\* a handler reaches an await on the engine and is suspended
Suspend(h) == awaiting (+) SetToBag({h})

\* a suspended handler is resumed and leaves the set of suspended handlers
Unsuspend(h) == awaiting (-) SetToBag({h})

\* ------------------------------------------------------------------- Init
Init ==
  /\ peers = {}
  /\ peerRoomId = [p \in PeerIds |-> NoRoom]
  /\ peerTransports = [p \in PeerIds |-> <<>>]
  /\ peerProducers = [p \in PeerIds |-> <<>>]
  /\ peerConsumers = [p \in PeerIds |-> <<>>]
  /\ socketState = [p \in PeerIds |-> "none"]
  /\ rooms = [r \in RoomKeys |-> NoRoomEntry]
  /\ awaiting = EmptyBag
  /\ closedTransports = {}
  /\ resumedConsumers = {}
  /\ toServer = [p \in PeerIds |-> <<>>]
  /\ toClient = [p \in PeerIds |-> <<>>]
  /\ stateRoomId = [p \in PeerIds |-> NoRoom]
  /\ stateDevice = [p \in PeerIds |-> FALSE]
  /\ stateSendTransport = [p \in PeerIds |-> NoId]
  /\ stateRecvTransport = [p \in PeerIds |-> NoId]
  /\ stateConsumers = [p \in PeerIds |-> {}]
  /\ pendingConsumers = [p \in PeerIds |-> <<>>]
  /\ producing = [p \in PeerIds |-> NoKind]
  /\ conferenceShown = [p \in PeerIds |-> FALSE]
  /\ requestLog = [p \in PeerIds |-> <<>>]
  /\ joinClicks = 0
  /\ disconnecting = NoStep
  /\ workerState = "running"
  /\ processState = "running"

\* ------------------------------------------------------------ server side
\* wss.on('connection'): a fresh peer id, an empty peer object, 'connected'
Connection(p) ==
  /\ socketState[p] = "none"
  /\ \A q \in PeerIds : q < p => socketState[q] # "none"
  /\ socketState' = [socketState EXCEPT ![p] = "open"]
  /\ peers' = peers \cup {p}
  /\ toClient' = [toClient EXCEPT ![p] = Append(@, [type |-> "connected", peerId |-> p])]
  /\ UNCHANGED <<peerRoomId, peerTransports, peerProducers, peerConsumers, rooms,
                 awaiting, engineVars, toServer>>
  /\ UNCHANGED <<clientVars, disconnecting, processVars>>

\* case 'getRouterRtpCapabilities': sendRouterCapabilitiesToPeer
sendRouterCapabilitiesToPeer(p) ==
  /\ toClient' = sendMessage(toClient, p, [type |-> "routerRtpCapabilities"])
  /\ UNCHANGED <<serverVars, socketState>>
  /\ UNCHANGED <<clientVars, disconnecting, processVars>>

\* variant: a snapshot taken before the latest member was inserted, as a
\* handler suspended between its snapshot and its insertion would hold
existingPeersBeforeLatest(p, roomId) ==
  LET others == SelectSeq(rooms[roomId].peers, LAMBDA id : id # p)
  IN IF others = <<>> THEN <<>> ELSE SubSeq(others, 1, Len(others) - 1)

\* variant: the members of the room after the insertion
existingPeersAfterInsertion(p, roomId) == SetAdd(rooms[roomId].peers, p)

\* existingPeers: the members of the room before the insertion, without the peer
existingPeersOf(p, roomId) == SelectSeq(rooms[roomId].peers, LAMBDA id : id # p)

\* the {producerId, kind} list built from one peer's producers Map
producerRefs(q) ==
  [j \in 1 .. Len(peerProducers[q]) |->
     [producerId |-> peerProducers[q][j].id, kind |-> peerProducers[q][j].kind]]

\* variant: an entry for every registered existing peer, producers or not
existingPeersInfoOfEveryPeer(existingPeers) ==
  LET registered == SelectSeq(existingPeers, LAMBDA id : id \in peers)
  IN [i \in 1 .. Len(registered) |->
        [peerId |-> registered[i], producers |-> producerRefs(registered[i])]]

\* existingPeersInfo: one entry per existing peer that is registered and has
\* at least one producer
existingPeersInfoOf(existingPeers) ==
  LET withProducers ==
        SelectSeq(existingPeers, LAMBDA id : id \in peers /\ peerProducers[id] # <<>>)
  IN [i \in 1 .. Len(withProducers) |->
        [peerId |-> withProducers[i], producers |-> producerRefs(withProducers[i])]]

\* case 'joinRoom': addPeerToRoomAndNotifyOthers (no await: one step)
addPeerToRoomAndNotifyOthers(p, data) ==
  /\ LET roomId == data.roomId
         existingPeers == existingPeersOf(p, roomId)
         joined == [type |-> "roomJoined", roomId |-> roomId, peers |-> existingPeers,
                    existingProducers |-> existingPeersInfoOf(existingPeers)]
     IN /\ rooms' = [rooms EXCEPT ![roomId] =
                       [present |-> TRUE, peers |-> SetAdd(rooms[roomId].peers, p)]]
        /\ peerRoomId' = [peerRoomId EXCEPT ![p] = roomId]
        /\ toClient' =
             [q \in PeerIds |->
                IF q = p THEN sendMessage(toClient, p, joined)[p]
                ELSE IF q \in Range(existingPeers) /\ q \in peers
                  THEN sendMessage(toClient, q, [type |-> "newPeer", peerId |-> p])[q]
                  ELSE toClient[q]]
  /\ UNCHANGED <<peers, peerTransports, peerProducers, peerConsumers, awaiting,
                 engineVars, socketState>>
  /\ UNCHANGED <<clientVars, disconnecting, processVars>>

\* case 'createTransport': createTransportAndSendParameters up to its await
createTransportAndSendParameters(p, data) ==
  /\ awaiting' = Suspend([op |-> "createTransport", peer |-> p,
                          direction |-> data.direction])
  /\ UNCHANGED <<peers, peerRoomId, peerTransports, peerProducers, peerConsumers,
                 rooms, engineVars, socketState, toClient>>
  /\ UNCHANGED <<clientVars, disconnecting, processVars>>

\* createTransportAndSendParameters after createWebRtcTransport resolved
createTransportResolved(h) ==
  /\ BagIn(h, awaiting)
  /\ h.op = "createTransport"
  /\ LET id == <<h.peer, Len(peerTransports[h.peer]) + 1>>
     IN /\ peerTransports' = [peerTransports EXCEPT ![h.peer] =
                                Append(@, [id |-> id, direction |-> h.direction])]
        /\ toClient' = sendMessage(toClient, h.peer,
                          [type |-> "transportCreated", transportId |-> id,
                           direction |-> h.direction])
  /\ awaiting' = Unsuspend(h)
  /\ UNCHANGED <<peers, peerRoomId, peerProducers, peerConsumers, rooms,
                 engineVars, socketState, toServer>>
  /\ UNCHANGED <<clientVars, disconnecting, processVars>>

\* case 'connectTransport': finalizeTransportConnection up to its await
finalizeTransportConnection(p, data) ==
  /\ LET transportId == data.transportId
     IN IF transportId \notin Ids(peerTransports[p])
          THEN /\ toClient' = errorReply(p, "Transport not found")
               /\ UNCHANGED awaiting
          ELSE /\ awaiting' = Suspend([op |-> "connectTransport", peer |-> p,
                                       transportId |-> transportId])
               /\ UNCHANGED toClient
  /\ UNCHANGED <<peers, peerRoomId, peerTransports, peerProducers, peerConsumers,
                 rooms, engineVars, socketState>>
  /\ UNCHANGED <<clientVars, disconnecting, processVars>>

\* finalizeTransportConnection after transport.connect resolved
connectResolved(h) ==
  /\ BagIn(h, awaiting)
  /\ h.op = "connectTransport"
  /\ toClient' = sendMessage(toClient, h.peer,
                    [type |-> "transportConnected", transportId |-> h.transportId])
  /\ awaiting' = Unsuspend(h)
  /\ UNCHANGED <<peers, peerRoomId, peerTransports, peerProducers, peerConsumers,
                 rooms, engineVars, socketState, toServer>>
  /\ UNCHANGED <<clientVars, disconnecting, processVars>>

\* case 'produce': createProducerAndBroadcastToPeers up to its await
createProducerAndBroadcastToPeers(p, data) ==
  /\ LET m == data
     IN IF m.transportId \notin Ids(peerTransports[p])
          THEN /\ toClient' = errorReply(p, "Transport not found")
               /\ UNCHANGED awaiting
          ELSE /\ awaiting' = Suspend([op |-> "produce", peer |-> p,
                                       transportId |-> m.transportId, kind |-> m.kind])
               /\ UNCHANGED toClient
  /\ UNCHANGED <<peers, peerRoomId, peerTransports, peerProducers, peerConsumers,
                 rooms, engineVars, socketState>>
  /\ UNCHANGED <<clientVars, disconnecting, processVars>>

\* the peers that get newProducer: the other registered members of peer.roomId
newProducerAudience(p) ==
  IF peerRoomId[p] # NoRoom /\ rooms[peerRoomId[p]].present
    THEN {q \in Range(rooms[peerRoomId[p]].peers) : q # p /\ q \in peers}
    ELSE {}

\* createProducerAndBroadcastToPeers after transport.produce resolved
produceResolved(h) ==
  /\ BagIn(h, awaiting)
  /\ h.op = "produce"
  /\ LET id == <<h.peer, Len(peerProducers[h.peer]) + 1>>
     IN /\ peerProducers' = [peerProducers EXCEPT ![h.peer] =
                               Append(@, [id |-> id, kind |-> h.kind])]
        /\ toClient' =
             [q \in PeerIds |->
                IF q = h.peer
                  THEN sendMessage(toClient, q,
                         [type |-> "produced", producerId |-> id, kind |-> h.kind])[q]
                ELSE IF q \in newProducerAudience(h.peer)
                  THEN sendMessage(toClient, q,
                         [type |-> "newProducer", peerId |-> h.peer,
                          producerId |-> id, kind |-> h.kind])[q]
                  ELSE toClient[q]]
  /\ awaiting' = Unsuspend(h)
  /\ UNCHANGED <<peers, peerRoomId, peerTransports, peerConsumers, rooms,
                 engineVars, socketState, toServer>>
  /\ UNCHANGED <<clientVars, disconnecting, processVars>>

\* the registered peers whose producers Map has the producer id
producerPeersOf(producerId) == {q \in peers : producerId \in Ids(peerProducers[q])}

\* variant: the first transport of the peer, whatever its direction
firstTransportOf(p) == peerTransports[p]

\* Array.from(peer.transports.values()).find(t => t.direction === 'recv')
recvTransportOf(p) == SelectSeq(peerTransports[p], LAMBDA t : t.direction = "recv")

\* case 'consume': createConsumerForRemoteProducer up to its await
createConsumerForRemoteProducer(p, data) ==
  /\ LET m == data
     IN IF producerPeersOf(m.producerId) = {}
          THEN /\ toClient' = errorReply(p, "Producer not found")
               /\ UNCHANGED awaiting
        ELSE IF ~canConsume(m.producerId, m.rtpCapabilities)
          THEN /\ toClient' = errorReply(p, "Cannot consume")
               /\ UNCHANGED awaiting
        ELSE IF recvTransportOf(p) = <<>>
          THEN /\ toClient' = errorReply(p, "Recv transport not found")
               /\ UNCHANGED awaiting
          ELSE /\ awaiting' =
                    Suspend([op |-> "consume", peer |-> p, producerId |-> m.producerId,
                             producerPeerId |-> CHOOSE q \in producerPeersOf(m.producerId) : TRUE,
                             transportId |-> Head(recvTransportOf(p)).id])
               /\ UNCHANGED toClient
  /\ UNCHANGED <<peers, peerRoomId, peerTransports, peerProducers, peerConsumers,
                 rooms, engineVars, socketState>>
  /\ UNCHANGED <<clientVars, disconnecting, processVars>>

\* variant: the consumer starts flowing as soon as it is created
pausedFalse == FALSE

\* paused: true, the option createConsumerForRemoteProducer passes to consume
paused == TRUE

\* consumer.kind: the kind of the producer the engine bound the consumer to
kindOfProducer(producerId) ==
  LET owner == producerId[1]
      entry == SelectSeq(peerProducers[owner], LAMBDA e : e.id = producerId)
  IN Head(entry).kind

\* variant: the consumer is stored in the Map of the producer's peer
consumersOfProducerPeer(h) == h.producerPeerId

\* peer.consumers.set: the Map that takes the consumer is the requester's
consumersOfPeer(h) == h.peer

\* createConsumerForRemoteProducer after recvTransport.transport.consume resolved
consumeResolved(h) ==
  /\ BagIn(h, awaiting)
  /\ h.op = "consume"
  /\ LET id == <<h.peer, Len(peerConsumers[h.peer]) + 1>>
     IN /\ peerConsumers' = [peerConsumers EXCEPT ![consumersOfPeer(h)] =
                               Append(@, [id |-> id, producerId |-> h.producerId,
                                          producerPeerId |-> h.producerPeerId])]
        /\ toClient' = sendMessage(toClient, h.peer,
                          [type |-> "consumed", consumerId |-> id,
                           producerId |-> h.producerId,
                           producerPeerId |-> h.producerPeerId,
                           kind |-> kindOfProducer(h.producerId)])
        /\ resumedConsumers' =
             IF paused THEN resumedConsumers ELSE resumedConsumers \cup {id}
  /\ awaiting' = Unsuspend(h)
  /\ UNCHANGED <<peers, peerRoomId, peerTransports, peerProducers, rooms,
                 closedTransports, socketState, toServer>>
  /\ UNCHANGED <<clientVars, disconnecting, processVars>>

\* case 'resumeConsumer': resumePausedConsumer up to its await
resumePausedConsumer(p, data) ==
  /\ LET consumerId == data.consumerId
     IN IF consumerId \notin Ids(peerConsumers[p])
          THEN /\ toClient' = errorReply(p, "Consumer not found")
               /\ UNCHANGED awaiting
          ELSE /\ awaiting' = Suspend([op |-> "resumeConsumer", peer |-> p,
                                       consumerId |-> consumerId])
               /\ UNCHANGED toClient
  /\ UNCHANGED <<peers, peerRoomId, peerTransports, peerProducers, peerConsumers,
                 rooms, engineVars, socketState>>
  /\ UNCHANGED <<clientVars, disconnecting, processVars>>

\* variant: resuming a consumer that is flowing pauses it
resumeToggling(consumerId) ==
  IF consumerId \in resumedConsumers
    THEN resumedConsumers \ {consumerId}
    ELSE resumedConsumers \cup {consumerId}

\* consumer.resume(): the consumer flows; one that flows already stays so
resume(consumerId) == resumedConsumers \cup {consumerId}

\* resumePausedConsumer after consumer.resume resolved
resumeResolved(h) ==
  /\ BagIn(h, awaiting)
  /\ h.op = "resumeConsumer"
  /\ resumedConsumers' = resume(h.consumerId)
  /\ toClient' = sendMessage(toClient, h.peer,
                    [type |-> "consumerResumed", consumerId |-> h.consumerId])
  /\ awaiting' = Unsuspend(h)
  /\ UNCHANGED <<peerVars, rooms, closedTransports, socketState, toServer>>
  /\ UNCHANGED <<clientVars, disconnecting, processVars>>

\* variant: the handler goes on without a registered peer
peerFoundAlways(p) == TRUE

\* const peer = peers.get(peerId); if (!peer) return
peerFound(p) == p \in peers

\* if (peer.roomId) { const room = rooms.get(peer.roomId); if (room) ...
hasRoomToLeave(p) == peerRoomId[p] # NoRoom /\ rooms[peerRoomId[p]].present

\* room.peers after room.peers.delete(peerId)
remainingPeers(p) == SetDelete(rooms[peerRoomId[p]].peers, p)

\* variant: the room is kept when its last member was removed
roomsWithoutKeepingEmpty(roomId, remaining) ==
  [rooms EXCEPT ![roomId].peers = remaining]

\* the rooms Map after the removal: if (room.peers.size === 0) rooms.delete
roomsWithout(roomId, remaining) ==
  IF remaining = <<>>
    THEN [rooms EXCEPT ![roomId] = NoRoomEntry]
    ELSE [rooms EXCEPT ![roomId].peers = remaining]

\* the connections after peerLeft was sent to the remaining members
peerLeftSent(p, remaining) ==
  [q \in PeerIds |->
     IF q \in Range(remaining) /\ q \in peers
       THEN sendMessage(toClient, q, [type |-> "peerLeft", peerId |-> p])[q]
       ELSE toClient[q]]

\* handlePeerDisconnection as a function of the state: what it leaves behind
disconnected(p) ==
  IF ~peerFound(p)
    THEN [peers |-> peers, rooms |-> rooms, closedTransports |-> closedTransports,
          toClient |-> toClient]
    ELSE [peers |-> peers \ {p},
          rooms |-> IF hasRoomToLeave(p)
                      THEN roomsWithout(peerRoomId[p], remainingPeers(p))
                      ELSE rooms,
          closedTransports |-> closedTransports \cup Ids(peerTransports[p]),
          toClient |-> IF hasRoomToLeave(p)
                         THEN peerLeftSent(p, remainingPeers(p))
                         ELSE toClient]

\* socket.on('close'): handlePeerDisconnection; the connection's frames are gone
handlePeerDisconnection(p) ==
  /\ socketState[p] = "open"
  /\ socketState' = [socketState EXCEPT ![p] = "closed"]
  /\ closedTransports' = disconnected(p).closedTransports
  /\ rooms' = disconnected(p).rooms
  /\ peers' = disconnected(p).peers
  /\ toClient' = [disconnected(p).toClient EXCEPT ![p] = <<>>]
  /\ toServer' = [toServer EXCEPT ![p] = <<>>]
  /\ UNCHANGED <<peerRoomId, peerTransports, peerProducers, peerConsumers, awaiting,
                 resumedConsumers>>
  /\ UNCHANGED <<clientVars, disconnecting, processVars>>

\* variant: the peer is deleted from the registry before anything else
disconnectionOrderDeleteFirst == <<"removePeer", "closeAllTransports", "removeFromRoom">>

\* the statements of handlePeerDisconnection in the order of the function body
disconnectionOrder == <<"closeAllTransports", "removeFromRoom", "removePeer">>

\* the place of a statement in the function body
positionOf(statement) ==
  CHOOSE i \in 1 .. Len(disconnectionOrder) : disconnectionOrder[i] = statement

\* the handler of p's close event is about to run the statement; the first
\* statement runs when the close event fires
atStatement(p, statement) ==
  IF positionOf(statement) = 1
    THEN disconnecting = NoStep /\ socketState[p] = "open"
    ELSE disconnecting = <<p, positionOf(statement) - 1>>

\* where the handler is after the statement; after the last it has returned
afterStatement(p, statement) ==
  IF positionOf(statement) = Len(disconnectionOrder)
    THEN NoStep
    ELSE <<p, positionOf(statement)>>

\* the close event that starts the handler: the socket is CLOSED and the
\* frames of the connection are gone
closeEvent(p, statement, out) ==
  IF positionOf(statement) = 1
    THEN /\ socketState' = [socketState EXCEPT ![p] = "closed"]
         /\ toServer' = [toServer EXCEPT ![p] = <<>>]
         /\ toClient' = [out EXCEPT ![p] = <<>>]
    ELSE /\ UNCHANGED <<socketState, toServer>>
         /\ toClient' = out

\* handlePeerDisconnection, 'Close all transports'
closeAllTransports(p) ==
  /\ atStatement(p, "closeAllTransports")
  /\ disconnecting' = afterStatement(p, "closeAllTransports")
  /\ closeEvent(p, "closeAllTransports", toClient)
  /\ closedTransports' = closedTransports \cup Ids(peerTransports[p])
  /\ UNCHANGED <<peerVars, rooms, awaiting, resumedConsumers>>
  /\ UNCHANGED <<clientVars, processVars>>

\* handlePeerDisconnection, 'Remove from room': the removal, the peerLeft
\* notifications and the deletion of the empty room
removeFromRoom(p) ==
  /\ atStatement(p, "removeFromRoom")
  /\ disconnecting' = afterStatement(p, "removeFromRoom")
  /\ closeEvent(p, "removeFromRoom",
                IF hasRoomToLeave(p) THEN peerLeftSent(p, remainingPeers(p)) ELSE toClient)
  /\ rooms' = IF hasRoomToLeave(p)
                THEN roomsWithout(peerRoomId[p], remainingPeers(p))
                ELSE rooms
  /\ UNCHANGED <<peerVars, awaiting, engineVars>>
  /\ UNCHANGED <<clientVars, processVars>>

\* handlePeerDisconnection, 'Remove peer': peers.delete(peerId)
removePeer(p) ==
  /\ atStatement(p, "removePeer")
  /\ disconnecting' = afterStatement(p, "removePeer")
  /\ closeEvent(p, "removePeer", toClient)
  /\ peers' = peers \ {p}
  /\ UNCHANGED <<peerRoomId, peerTransports, peerProducers, peerConsumers, rooms,
                 awaiting, engineVars>>
  /\ UNCHANGED <<clientVars, processVars>>

\* the engine has room for one more call in flight
EngineHasRoom == BagCardinality(awaiting) < MaxAwaiting

\* the cases of the switch of routeIncomingMessage
MessageTypes ==
  {"getRouterRtpCapabilities", "joinRoom", "createTransport", "connectTransport",
   "produce", "consume", "resumeConsumer"}

\* default: console.warn and nothing else, no frame is written
unknownMessageType(p, data) ==
  /\ UNCHANGED <<serverVars, socketState, toClient>>
  /\ UNCHANGED <<clientVars, disconnecting, processVars>>

\* the frame carries a payload object
HasPayload(data) == DOMAIN data # {"type"}

\* const { ... } = payload of a frame without payload: the handler throws a
\* TypeError at its first line
payloadMissing(p, data) ==
  /\ toClient' = errorReply(p, "Cannot destructure property of 'payload'")
  /\ UNCHANGED <<serverVars, socketState>>
  /\ UNCHANGED <<clientVars, disconnecting, processVars>>

\* socket.on('message') on an open connection: routeIncomingMessage finds the
\* peer and switches on the frame's type; a handler that reaches its await
\* needs room in the engine, one that throws before it does not
routeIncomingMessage(p, data) ==
  /\ socketState[p] = "open"
  /\ p \in peers
  /\ \/ data.type = "getRouterRtpCapabilities" /\ sendRouterCapabilitiesToPeer(p)
     \/ data.type = "joinRoom" /\ HasPayload(data)
          /\ addPeerToRoomAndNotifyOthers(p, data)
     \/ data.type = "createTransport" /\ HasPayload(data)
          /\ createTransportAndSendParameters(p, data)
     \/ data.type = "connectTransport" /\ HasPayload(data)
          /\ finalizeTransportConnection(p, data)
     \/ data.type = "produce" /\ HasPayload(data)
          /\ createProducerAndBroadcastToPeers(p, data)
     \/ data.type = "consume" /\ HasPayload(data)
          /\ createConsumerForRemoteProducer(p, data)
     \/ data.type = "resumeConsumer" /\ HasPayload(data)
          /\ resumePausedConsumer(p, data)
     \/ data.type \in MessageTypes \ {"getRouterRtpCapabilities"}
          /\ ~HasPayload(data) /\ payloadMissing(p, data)
     \/ data.type \notin MessageTypes /\ unknownMessageType(p, data)
  /\ awaiting' # awaiting => EngineHasRoom

\* a message that is not JSON text
MalformedMessage == [type |-> "not JSON"]

\* socket.on('message'): JSON.parse throws on a message that is not JSON and
\* the catch replies; any other message goes to routeIncomingMessage
onMessage(p, message) ==
  IF message = MalformedMessage
    THEN /\ socketState[p] = "open"
         /\ toClient' = errorReply(p, "Unexpected token in JSON")
         /\ UNCHANGED <<serverVars, socketState>>
         /\ UNCHANGED <<clientVars, disconnecting, processVars>>
    ELSE routeIncomingMessage(p, message)

\* the handlers suspended on the engine
Suspended == BagToSet(awaiting)

\* a suspended handler goes on after its engine call resolved
engineResolved(h) ==
  \/ createTransportResolved(h)
  \/ connectResolved(h)
  \/ produceResolved(h)
  \/ consumeResolved(h)
  \/ resumeResolved(h)

\* the next frame of a connection reaches the server
frameArrives(p) ==
  /\ toServer[p] # <<>>
  /\ onMessage(p, Head(toServer[p]))
  /\ toServer' = [toServer EXCEPT ![p] = Tail(@)]

\* ------------------------------------------------------------ client side
\* the cases of routeServerMessage that only log or touch the page: connected,
\* newPeer, transportConnected, consumerResumed, peerLeft, error
NoticeTypes ==
  {"connected", "newPeer", "transportConnected", "consumerResumed", "peerLeft", "error"}

RECURSIVE Pending(_)
\* the frames still to be acted on: the notice frames at the front of the
\* connection are handled without effect on the way to the next acting frame
Pending(q) ==
  IF q = <<>> THEN <<>>
  ELSE IF Head(q).type \in NoticeTypes THEN Pending(Tail(q)) ELSE q

\* socket.onmessage fires with the next frame; routeServerMessage switches on it
Delivered(p, type) ==
  /\ socketState[p] = "open"
  /\ Pending(toClient[p]) # <<>>
  /\ Head(Pending(toClient[p])).type = type

\* the frame routeServerMessage is handling
Frame(p) == Head(Pending(toClient[p]))

\* the connection after the frame was taken
Taken(p) == [toClient EXCEPT ![p] = Tail(Pending(toClient[p]))]

\* the 'consume' frame the client sends for one producer reference
consumeRequest(producerId) ==
  [type |-> "consume", producerId |-> producerId, rtpCapabilities |-> "device"]

\* variant: only the first producer of each queued entry is requested
consumeRequestsFirstOnly(queue) ==
  [i \in 1 .. Len(queue) |-> consumeRequest(queue[i].producers[1].producerId)]

\* the frames of the two nested forEach over state.pendingConsumers
consumeRequests(queue) ==
  [i \in 1 .. Len(Flatten(queue)) |-> consumeRequest(Flatten(queue)[i].producerId)]

RECURSIVE requestLines(_)
\* the lines 'Requesting to consume <kind> from peer <peerId>' of the forEach
requestLines(queue) ==
  IF queue = <<>> THEN <<>>
  ELSE [j \in 1 .. Len(Head(queue).producers) |->
          [peerId |-> Head(queue).peerId, kind |-> Head(queue).producers[j].kind]]
       \o requestLines(Tail(queue))

\* handleJoinRoom: the join form is showing and a room name was entered
handleJoinRoom(p, roomId) ==
  /\ socketState[p] = "open"
  /\ ~conferenceShown[p]
  /\ joinClicks < MaxJoinClicks
  /\ joinClicks' = joinClicks + 1
  /\ stateRoomId' = [stateRoomId EXCEPT ![p] = roomId]
  /\ toServer' = clientSend(toServer, p, <<[type |-> "getRouterRtpCapabilities"]>>)
  /\ UNCHANGED <<serverVars, socketState, toClient>>
  /\ UNCHANGED <<stateDevice, stateSendTransport, stateRecvTransport, stateConsumers,
                 pendingConsumers, producing, conferenceShown, requestLog>>

\* case 'routerRtpCapabilities': initializeDeviceWithCapabilities
initializeDeviceWithCapabilities(p) ==
  /\ Delivered(p, "routerRtpCapabilities")
  /\ toClient' = Taken(p)
  /\ stateDevice' = [stateDevice EXCEPT ![p] = TRUE]
  /\ toServer' = clientSend(toServer, p,
                    <<[type |-> "joinRoom", roomId |-> stateRoomId[p]]>>)
  /\ UNCHANGED <<serverVars, socketState>>
  /\ UNCHANGED <<stateRoomId, stateSendTransport, stateRecvTransport, stateConsumers,
                 pendingConsumers, producing, conferenceShown, requestLog, joinClicks>>

\* variant: the receive transport is asked for first
directionAfterJoinRecv == "recv"

\* Step 4: the direction of the transport asked for when roomJoined arrives
directionAfterJoin == "send"

\* case 'roomJoined': setupLocalMediaAndTransports
setupLocalMediaAndTransports(p) ==
  /\ Delivered(p, "roomJoined")
  /\ toClient' = Taken(p)
  /\ conferenceShown' = [conferenceShown EXCEPT ![p] = TRUE]
  /\ pendingConsumers' = [pendingConsumers EXCEPT ![p] = Frame(p).existingProducers]
  /\ toServer' = clientSend(toServer, p,
                    <<[type |-> "createTransport", direction |-> directionAfterJoin]>>)
  /\ UNCHANGED <<serverVars, socketState>>
  /\ UNCHANGED <<stateRoomId, stateDevice, stateSendTransport, stateRecvTransport,
                 stateConsumers, producing, requestLog, joinClicks>>

\* case 'transportCreated', direction 'send': configureTransportAndProduce up to
\* the first await of produceMedia (the 'connect' and 'produce' events of the
\* video producer); without a device the handler throws and is caught
configureSendTransport(p) ==
  /\ Delivered(p, "transportCreated")
  /\ Frame(p).direction = "send"
  /\ toClient' = Taken(p)
  /\ LET id == Frame(p).transportId
     IN IF stateDevice[p]
          THEN /\ stateSendTransport' = [stateSendTransport EXCEPT ![p] = id]
               /\ producing' = [producing EXCEPT ![p] = Kinds[1]]
               /\ toServer' = clientSend(toServer, p,
                     <<[type |-> "connectTransport", transportId |-> id],
                       [type |-> "produce", transportId |-> id, kind |-> Kinds[1]]>>)
          ELSE UNCHANGED <<stateSendTransport, producing, toServer>>
  /\ UNCHANGED <<serverVars, socketState>>
  /\ UNCHANGED <<stateRoomId, stateDevice, stateRecvTransport, stateConsumers,
                 pendingConsumers, conferenceShown, requestLog, joinClicks>>

\* case 'produced': the onmessage wrapper of the 'produce' event resolves the
\* pending produce; produceMedia goes on to the audio producer, and after it
\* configureTransportAndProduce asks for the recv transport (Step 6).  A
\* 'produced' nobody awaits goes to confirmProducerCreated.
confirmProducerCreated(p) ==
  /\ Delivered(p, "produced")
  /\ toClient' = Taken(p)
  /\ LET kind == Frame(p).kind
     IN IF producing[p] = kind /\ kind = Kinds[1]
          THEN /\ producing' = [producing EXCEPT ![p] = Kinds[2]]
               /\ toServer' = clientSend(toServer, p,
                     <<[type |-> "produce", transportId |-> stateSendTransport[p],
                        kind |-> Kinds[2]]>>)
        ELSE IF producing[p] = kind
          THEN /\ producing' = [producing EXCEPT ![p] = NoKind]
               /\ toServer' = clientSend(toServer, p,
                     <<[type |-> "createTransport", direction |-> "recv"]>>)
          ELSE UNCHANGED <<producing, toServer>>
  /\ UNCHANGED <<serverVars, socketState>>
  /\ UNCHANGED <<stateRoomId, stateDevice, stateSendTransport, stateRecvTransport,
                 stateConsumers, pendingConsumers, conferenceShown, requestLog, joinClicks>>

\* case 'transportCreated', direction 'recv': the recv branch of
\* configureTransportAndProduce: the pending producers are consumed and cleared
configureRecvTransport(p) ==
  /\ Delivered(p, "transportCreated")
  /\ Frame(p).direction = "recv"
  /\ toClient' = Taken(p)
  /\ IF stateDevice[p]
       THEN /\ stateRecvTransport' = [stateRecvTransport EXCEPT ![p] =
                                        Frame(p).transportId]
            /\ toServer' = clientSend(toServer, p, consumeRequests(pendingConsumers[p]))
            /\ requestLog' = [requestLog EXCEPT ![p] = @ \o requestLines(pendingConsumers[p])]
            /\ pendingConsumers' = [pendingConsumers EXCEPT ![p] = <<>>]
       ELSE UNCHANGED <<stateRecvTransport, toServer, pendingConsumers, requestLog>>
  /\ UNCHANGED <<serverVars, socketState>>
  /\ UNCHANGED <<stateRoomId, stateDevice, stateSendTransport, stateConsumers,
                 producing, conferenceShown, joinClicks>>

\* variant: the reference of a newProducer frame is queued, not requested
requestToConsumeNewProducerQueued(p) ==
  /\ Delivered(p, "newProducer")
  /\ toClient' = Taken(p)
  /\ pendingConsumers' =
       [pendingConsumers EXCEPT ![p] =
          Append(@, [peerId |-> Frame(p).peerId,
                     producers |-> <<[producerId |-> Frame(p).producerId,
                                      kind |-> Frame(p).kind]>>])]
  /\ UNCHANGED <<serverVars, socketState, toServer>>
  /\ UNCHANGED <<stateRoomId, stateDevice, stateSendTransport, stateRecvTransport,
                 stateConsumers, producing, conferenceShown, requestLog, joinClicks>>

\* case 'newProducer': requestToConsumeNewProducer (state.device.rtpCapabilities
\* throws without a device, and the throw is caught)
requestToConsumeNewProducer(p) ==
  /\ Delivered(p, "newProducer")
  /\ toClient' = Taken(p)
  /\ toServer' = IF stateDevice[p]
                   THEN clientSend(toServer, p,
                          <<consumeRequest(Frame(p).producerId)>>)
                   ELSE toServer
  /\ UNCHANGED <<serverVars, socketState>>
  /\ UNCHANGED <<clientVars, disconnecting, processVars>>

\* case 'consumed': startReceivingRemoteMedia (state.recvTransport.consume throws
\* without a recv transport; the first consume on a transport fires 'connect')
startReceivingRemoteMedia(p) ==
  /\ Delivered(p, "consumed")
  /\ toClient' = Taken(p)
  /\ LET m == Frame(p)
         connect == IF stateConsumers[p] = {}
                      THEN <<[type |-> "connectTransport",
                              transportId |-> stateRecvTransport[p]]>>
                      ELSE <<>>
     IN IF stateRecvTransport[p] # NoId
          THEN /\ stateConsumers' = [stateConsumers EXCEPT ![p] = @ \cup {m.consumerId}]
               /\ toServer' = clientSend(toServer, p,
                     connect \o <<[type |-> "resumeConsumer", consumerId |-> m.consumerId]>>)
          ELSE UNCHANGED <<stateConsumers, toServer>>
  /\ UNCHANGED <<serverVars, socketState>>
  /\ UNCHANGED <<stateRoomId, stateDevice, stateSendTransport, stateRecvTransport,
                 pendingConsumers, producing, conferenceShown, requestLog, joinClicks>>

\* leaveRoom: the Leave button of the conference section; nothing is sent to
\* the server and the socket stays open
leaveRoom(p) ==
  /\ socketState[p] = "open"
  /\ conferenceShown[p]
  /\ stateConsumers' = [stateConsumers EXCEPT ![p] = {}]
  /\ stateSendTransport' = [stateSendTransport EXCEPT ![p] = NoId]
  /\ stateRecvTransport' = [stateRecvTransport EXCEPT ![p] = NoId]
  /\ producing' = [producing EXCEPT ![p] = NoKind]
  /\ stateRoomId' = [stateRoomId EXCEPT ![p] = NoRoom]
  /\ stateDevice' = [stateDevice EXCEPT ![p] = FALSE]
  /\ conferenceShown' = [conferenceShown EXCEPT ![p] = FALSE]
  /\ UNCHANGED <<serverVars, socketState, toServer, toClient>>
  /\ UNCHANGED <<pendingConsumers, requestLog, joinClicks>>

\* ------------------------------------------------------- scripted clients
\* the ids a client can name in a frame: the ones the engine has handed out to
\* any peer, and one it never handed out
KnownIds(maps) == UNION {Ids(maps[q]) : q \in PeerIds} \cup {BogusId}

\* the frames of the signaling protocol (the cases of routeIncomingMessage)
\* that a WebSocket client can put on its connection
ProtocolFrames ==
  {[type |-> "getRouterRtpCapabilities"]}
  \cup {[type |-> "joinRoom", roomId |-> r] : r \in RoomKeys}
  \cup {[type |-> "createTransport", direction |-> d] : d \in Directions}
  \cup {[type |-> "connectTransport", transportId |-> t] : t \in KnownIds(peerTransports)}
  \cup {[type |-> "produce", transportId |-> t, kind |-> k] :
          t \in KnownIds(peerTransports), k \in Range(Kinds)}
  \cup {[type |-> "consume", producerId |-> i, rtpCapabilities |-> c] :
          i \in KnownIds(peerProducers), c \in {"device", "other"}}
  \cup {[type |-> "resumeConsumer", consumerId |-> c] : c \in KnownIds(peerConsumers)}

RECURSIVE TotalLen(_, _)
\* the number of entries of one Map (transports, producers, consumers) summed
\* over the peer objects 1 .. n
TotalLen(maps, n) == IF n = 0 THEN 0 ELSE Len(maps[n]) + TotalLen(maps, n - 1)

RECURSIVE MembersIn(_)
\* the number of (room, member) pairs of these keys of the rooms Map
MembersIn(keys) ==
  IF keys = {} THEN 0
  ELSE LET r == CHOOSE k \in keys : TRUE
       IN Len(rooms[r].peers) + MembersIn(keys \ {r})

\* the number of (room, member) pairs in the rooms Map
Memberships == MembersIn(RoomKeys)

\* the requests of one type that are on a connection or suspended on the engine
InFlight(type) ==
  Cardinality({q \in PeerIds : toServer[q] # <<>> /\ Head(toServer[q]).type = type})
  + BagCardinality([h \in {g \in BagToSet(awaiting) : g.op = type} |-> awaiting[h]])

\* the transports, producers and consumers that exist or are being created
EngineObjects ==
  TotalLen(peerTransports, NumPeers) + TotalLen(peerProducers, NumPeers)
  + TotalLen(peerConsumers, NumPeers)
  + InFlight("createTransport") + InFlight("produce") + InFlight("consume")

\* a frame that adds a room membership or an engine object is sent while the
\* bound on their number leaves room for one more
WithinBounds(frame) ==
  frame.type \in {"joinRoom", "createTransport", "produce", "consume"} =>
    /\ Memberships + EngineObjects < MaxObjects
    /\ frame.type = "joinRoom" => Memberships < MaxMemberships

\* every frame the server has sent was read by its client
AllRead == \A q \in PeerIds : toClient[q] = <<>>

\* a client writes one protocol frame on its open connection and the server
\* takes it
sendFrame(p, frame) ==
  /\ WithinBounds(frame)
  /\ routeIncomingMessage(p, frame)
  /\ UNCHANGED toServer

\* a client reads the next frame of its connection and does nothing with it
readFrame(p) ==
  /\ socketState[p] = "open"
  /\ toClient[p] # <<>>
  /\ toClient' = [toClient EXCEPT ![p] = Tail(@)]
  /\ UNCHANGED <<serverVars, socketState, toServer, clientVars>>

\* -------------------------------------------------------------- next-state
\* the browser client: one step of a handler of client.js
ClientStep ==
  \/ \E p \in PeerIds, r \in RoomIds : handleJoinRoom(p, r)
  \/ \E p \in PeerIds : initializeDeviceWithCapabilities(p)
  \/ \E p \in PeerIds : setupLocalMediaAndTransports(p)
  \/ \E p \in PeerIds : configureSendTransport(p)
  \/ \E p \in PeerIds : confirmProducerCreated(p)
  \/ \E p \in PeerIds : configureRecvTransport(p)
  \/ \E p \in PeerIds : requestToConsumeNewProducer(p)
  \/ \E p \in PeerIds : startReceivingRemoteMedia(p)
  \/ \E p \in PeerIds : leaveRoom(p)

\* the server with clients that send any protocol frame in any order and read
\* what the server sends before the server's next step
Next ==
  \/ AllRead /\ \E p \in PeerIds : Connection(p)
  \/ AllRead /\ \E p \in PeerIds : \E frame \in ProtocolFrames : sendFrame(p, frame)
  \/ AllRead /\ \E h \in Suspended : engineResolved(h)
  \/ AllRead /\ \E p \in PeerIds : handlePeerDisconnection(p)
  \/ \E p \in PeerIds : readFrame(p)

Spec == Init /\ [][Next]_vars

\* the server with the browser client of this repository on every connection
ClientNext ==
  \/ \E p \in PeerIds : Connection(p)
  \/ \E p \in PeerIds : frameArrives(p)
  \/ \E h \in Suspended : engineResolved(h)
  \/ \E p \in PeerIds : handlePeerDisconnection(p)
  \/ ClientStep

ClientSpec == Init /\ [][ClientNext]_vars

\* the server of Next with handlePeerDisconnection taken statement by
\* statement; the function is synchronous, so nothing else runs while it is
\* between two statements
DisconnectNext ==
  \/ disconnecting = NoStep /\ AllRead /\ \E p \in PeerIds : Connection(p)
  \/ disconnecting = NoStep /\ AllRead
       /\ \E p \in PeerIds : \E frame \in ProtocolFrames : sendFrame(p, frame)
  \/ disconnecting = NoStep /\ AllRead /\ \E h \in Suspended : engineResolved(h)
  \/ disconnecting = NoStep /\ \E p \in PeerIds : readFrame(p)
  \/ \E p \in PeerIds : (disconnecting = NoStep => AllRead) /\ closeAllTransports(p)
  \/ \E p \in PeerIds : (disconnecting = NoStep => AllRead) /\ removeFromRoom(p)
  \/ \E p \in PeerIds : (disconnecting = NoStep => AllRead) /\ removePeer(p)

DisconnectSpec == Init /\ [][DisconnectNext]_vars

\* a frame whose type is none of the cases of routeIncomingMessage
UnknownFrame == [type |-> "unknownType"]

\* the frames of a case of routeIncomingMessage that carry no payload though
\* the handler of the case reads one
PayloadlessFrames ==
  {[type |-> t] : t \in MessageTypes \ {"getRouterRtpCapabilities"}}

\* every message a WebSocket client can put on its connection
ClientFrames ==
  ProtocolFrames \cup PayloadlessFrames \cup {UnknownFrame, MalformedMessage}

\* no frame is on its way to the server
NoneOnTheWay == \A q \in PeerIds : toServer[q] = <<>>

\* socket.send of a client: the frame is on the connection until the server's
\* 'message' event takes it
writeFrame(p, frame) ==
  /\ socketState[p] = "open"
  /\ WithinBounds(frame)
  /\ toServer' = [toServer EXCEPT ![p] = Append(@, frame)]
  /\ UNCHANGED <<serverVars, socketState, toClient, clientVars>>

\* the server of Next with each frame on its connection before the server
\* takes it, one frame on the way at a time
RequestNext ==
  \/ AllRead /\ \E p \in PeerIds : Connection(p)
  \/ AllRead /\ NoneOnTheWay
       /\ \E p \in PeerIds : \E frame \in ClientFrames : writeFrame(p, frame)
  \/ AllRead /\ \E p \in PeerIds : frameArrives(p)
  \/ AllRead /\ \E h \in Suspended : engineResolved(h)
  \/ AllRead /\ \E p \in PeerIds : handlePeerDisconnection(p)
  \/ \E p \in PeerIds : readFrame(p)

RequestSpec == Init /\ [][RequestNext]_vars

\* variant: the 'died' listener only logs
processExitNot == FALSE

\* process.exit(1), the call the 'died' listener of the worker makes
processExit == TRUE

\* worker.on('died'): the engine reports that its worker is gone; when the
\* process exits, its sockets close and its suspended handlers are gone with it
workerDied ==
  /\ workerState = "running"
  /\ processState = "running"
  /\ workerState' = "died"
  /\ IF processExit
       THEN /\ processState' = "exited"
            /\ socketState' = [p \in PeerIds |->
                                 IF socketState[p] = "open" THEN "closed"
                                 ELSE socketState[p]]
            /\ awaiting' = EmptyBag
            /\ toServer' = [p \in PeerIds |-> <<>>]
            /\ toClient' = [p \in PeerIds |-> <<>>]
       ELSE UNCHANGED <<processState, socketState, awaiting, toServer, toClient>>
  /\ UNCHANGED <<peerVars, rooms, engineVars, disconnecting, clientVars>>

\* the server of Next beside a worker that can die; a process that has
\* exited runs no event handler
WorkerNext ==
  \/ processState = "running" /\ Next
  \/ workerDied

WorkerSpec == Init /\ [][WorkerNext]_vars

\* a frame is sent while the connections hold fewer unread frames than the
\* bound, and while it adds no room membership or engine object beyond the
\* bound; a joinRoom for a room the peer is in already adds none
UnreadWithinBounds(p, frame) ==
  /\ \A q \in PeerIds : Len(toClient[q]) < MaxUnread
  /\ frame.type \in {"createTransport", "produce", "consume"} =>
       Memberships + EngineObjects < MaxObjects
  /\ frame.type = "joinRoom" =>
       \/ p \in Range(rooms[frame.roomId].peers)
       \/ Memberships + EngineObjects < MaxObjects /\ Memberships < MaxMemberships

\* the frames that announce producers
AnnouncementTypes == {"roomJoined", "newProducer"}

\* a client writes one protocol frame and the server takes it
sendFrameUnread(p, frame) ==
  /\ UnreadWithinBounds(p, frame)
  /\ routeIncomingMessage(p, frame)
  /\ UNCHANGED toServer

\* the announcements among the frames on a connection
announcementsOn(q) == SelectSeq(toClient[q], LAMBDA m : m.type \in AnnouncementTypes)

\* a client reads the frames of its connection that announce no producer
readOthers(p) ==
  /\ socketState[p] = "open"
  /\ toClient[p] # announcementsOn(p)
  /\ toClient' = [toClient EXCEPT ![p] = announcementsOn(p)]
  /\ UNCHANGED <<serverVars, socketState, toServer, clientVars>>

\* every frame that announces no producer was read by its client
OthersRead == \A q \in PeerIds : toClient[q] = announcementsOn(q)

\* the server of Next with clients that keep the announcements: each
\* connection holds every roomJoined and newProducer frame written to it
UnreadNext ==
  \/ OthersRead /\ \E p \in PeerIds : Connection(p)
  \/ OthersRead
       /\ \E p \in PeerIds : \E frame \in ProtocolFrames : sendFrameUnread(p, frame)
  \/ OthersRead /\ \E h \in Suspended : engineResolved(h)
  \/ OthersRead /\ \E p \in PeerIds : handlePeerDisconnection(p)
  \/ \E p \in PeerIds : readOthers(p)

UnreadSpec == Init /\ [][UnreadNext]_vars

\* ------------------------------------------------------------- properties
\* this step is the server taking the next frame of p's connection
Arrived(p) ==
  /\ toServer[p] # <<>>
  /\ toServer'[p] = Tail(toServer[p])
  /\ socketState'[p] = "open"

\* this step is routeServerMessage of p's browser handling a frame of the type
Handled(p, type) ==
  /\ Delivered(p, type)
  /\ toClient'[p] = Tail(Pending(toClient[p]))
  /\ socketState'[p] = "open"

\* the frames p's browser put on its connection in this step
Sent(p) == SubSeq(toServer'[p], Len(toServer[p]) + 1, Len(toServer'[p]))

\* the frame the server wrote to p's connection in this step, if it wrote one
Written(p) ==
  IF Len(toClient'[p]) = Len(toClient[p]) + 1
       /\ SubSeq(toClient'[p], 1, Len(toClient[p])) = toClient[p]
    THEN <<toClient'[p][Len(toClient'[p])]>>
    ELSE <<>>

\* the room-mates: p is connected, registered and shows the conference
InConference(p) == socketState[p] = "open" /\ p \in peers /\ conferenceShown[p]

\* nothing is in flight: no frame on the way, no handler suspended
Quiescent ==
  /\ awaiting = EmptyBag
  /\ \A p \in PeerIds :
       /\ toServer[p] = <<>>
       /\ socketState[p] = "open" => Pending(toClient[p]) = <<>>

\* p has a receive-direction transport in its transports Map
HasRecvTransport(p) ==
  \E i \in 1 .. Len(peerTransports[p]) : peerTransports[p][i].direction = "recv"

\* C1: for two distinct peers that stay connected in the same room, once
\* nothing is in flight any more, B holds a consumer for every producer of A
C1_EveryProducerIsConsumed ==
  Quiescent =>
    \A a, b \in PeerIds :
      ( /\ a # b
        /\ InConference(a) /\ InConference(b)
        /\ peerRoomId[a] # NoRoom
        /\ peerRoomId[a] = peerRoomId[b]
        /\ stateRoomId[a] = peerRoomId[a] /\ stateRoomId[b] = peerRoomId[b]
        /\ {a, b} \subseteq Range(rooms[peerRoomId[a]].peers) )
      => \A i \in 1 .. Len(peerProducers[a]) :
           \E j \in 1 .. Len(peerConsumers[b]) :
             peerConsumers[b][j].producerId = peerProducers[a][i].id

\* C2: a peer puts a consume request on its connection only while its own
\* receive transport exists
C2_ConsumeOnlyWithRecvTransport ==
  [][\A p \in PeerIds :
       (\E i \in 1 .. Len(Sent(p)) : Sent(p)[i].type = "consume")
         => stateRecvTransport'[p] # NoId]_vars

\* C3: a producer reference that reaches a peer before its receive transport
\* is ready, in roomJoined or in newProducer, is appended to the pending queue
\* and is neither dropped nor requested at once
C3_EarlyReferencesAreQueued ==
  [][\A p \in PeerIds :
       /\ (Handled(p, "newProducer") /\ stateRecvTransport[p] = NoId)
            => /\ Flatten(pendingConsumers'[p]) =
                    Append(Flatten(pendingConsumers[p]),
                           [producerId |-> Frame(p).producerId, kind |-> Frame(p).kind])
               /\ \A i \in 1 .. Len(Sent(p)) : Sent(p)[i].type # "consume"
       /\ (Handled(p, "roomJoined") /\ stateRecvTransport[p] = NoId)
            => /\ Flatten(pendingConsumers'[p]) =
                    Flatten(pendingConsumers[p]) \o Flatten(Frame(p).existingProducers)
               /\ \A i \in 1 .. Len(Sent(p)) : Sent(p)[i].type # "consume"]_vars

\* C4: when a peer's receive transport becomes ready, each queued producer
\* reference yields exactly one consume request, in the order of the queue,
\* without any action of the user, and the queue is empty afterwards
C4_QueueDrainedWhenRecvTransportReady ==
  [][\A p \in PeerIds :
       ( /\ Handled(p, "transportCreated")
         /\ Frame(p).direction = "recv"
         /\ stateRecvTransport'[p] = Frame(p).transportId )
       => LET queued == Flatten(pendingConsumers[p])
          IN /\ Len(Sent(p)) = Len(queued)
             /\ \A i \in 1 .. Len(queued) :
                  /\ Sent(p)[i].type = "consume"
                  /\ Sent(p)[i].producerId = queued[i].producerId
             /\ SubSeq(toServer'[p], 1, Len(toServer[p])) = toServer[p]
             /\ pendingConsumers'[p] = <<>>]_vars

\* C4 happens: a drain of two queued references was logged, the receive
\* transport is set and the queue is empty
C4_DrainedTwoReferences ==
  \E p \in PeerIds :
    /\ Len(requestLog[p]) >= 2
    /\ stateRecvTransport[p] # NoId
    /\ pendingConsumers[p] = <<>>

C6_ConsumerNeedsRecvTransport ==
  [][\A p \in PeerIds :
       /\ peerConsumers'[p] # peerConsumers[p] => HasRecvTransport(p)
       /\ (Arrived(p) /\ Head(toServer[p]).type = "consume" /\ ~HasRecvTransport(p))
            => /\ peerConsumers' = peerConsumers
               /\ awaiting' = awaiting
               /\ Written(p) # <<>> /\ Written(p)[1].type = "error"
               /\ \A q \in PeerIds \ {p} : toClient'[q] = toClient[q]]_vars

\* C6 happens: a consume request was refused for want of a receive transport
\* and the requester holds no consumer
C6_ConsumeRefusedWithoutRecvTransport ==
  \E p \in PeerIds :
    /\ peerConsumers[p] = <<>>
    /\ \E i \in 1 .. Len(toClient[p]) :
         /\ toClient[p][i].type = "error"
         /\ toClient[p][i].message = "Recv transport not found"

\* C7: the roomJoined reply lists in existingProducers exactly one entry for
\* each other peer that was a member before the join and has a producer, with
\* exactly that peer's producers (id and kind), whatever the joiner's transports
C7_RoomJoinedListsExistingProducers ==
  [][\A p \in PeerIds :
       (Written(p) # <<>> /\ Written(p)[1].type = "roomJoined")
       => LET listed == Written(p)[1].existingProducers
              others == {q \in Range(rooms[Written(p)[1].roomId].peers) \ {p} :
                           q \in peers /\ peerProducers[q] # <<>>}
          IN /\ {listed[i].peerId : i \in 1 .. Len(listed)} = others
             /\ Len(listed) = Cardinality(others)
             /\ \A i \in 1 .. Len(listed) :
                  LET owned == peerProducers[listed[i].peerId]
                      refs == listed[i].producers
                  IN /\ Len(refs) = Len(owned)
                     /\ {refs[j] : j \in 1 .. Len(refs)} =
                          {[producerId |-> owned[j].id, kind |-> owned[j].kind] :
                             j \in 1 .. Len(owned)}]_vars

\* C7 happens: a roomJoined on its way to the joiner lists one peer with its
\* two producers, one video and one audio
C7_RoomJoinedWithTwoProducers ==
  \E p \in PeerIds :
    \E i \in 1 .. Len(toClient[p]) :
      /\ toClient[p][i].type = "roomJoined"
      /\ Len(toClient[p][i].existingProducers) = 1
      /\ {e.kind : e \in Range(toClient[p][i].existingProducers[1].producers)} =
           Range(Kinds)

\* C8: a peer never holds two consumers for the same producer id
C8_OneConsumerPerProducer ==
  \A p \in PeerIds :
    \A i, j \in 1 .. Len(peerConsumers[p]) :
      peerConsumers[p][i].producerId = peerConsumers[p][j].producerId => i = j

\* C9: a registered peer's roomId is r exactly if the peer is in the member
\* set of room r and of no other room
C9_RoomIdMatchesMembership ==
  \A p \in peers :
    \A r \in RoomIds :
      peerRoomId[p] = r <=>
        /\ p \in Range(rooms[r].peers)
        /\ \A other \in RoomKeys \ {r} : p \notin Range(rooms[other].peers)

\* C10: a joinRoom request of a peer that is already a member of a room is
\* rejected: no roomId and no member set changes, and no roomJoined or newPeer
\* is sent
C10_SecondJoinRejected ==
  [][\A p \in PeerIds :
       ( /\ Arrived(p)
         /\ Head(toServer[p]).type = "joinRoom"
         /\ \E r \in RoomKeys : p \in Range(rooms[r].peers) )
       => /\ peerRoomId' = peerRoomId
          /\ rooms' = rooms
          /\ \A q \in PeerIds :
               Written(q) = <<>> \/ Written(q)[1].type \notin {"roomJoined", "newPeer"}]_vars

Disconnects(p) == socketState[p] = "open" /\ socketState'[p] = "closed"

\* C12: when a peer that is in room r disconnects, every connected peer that
\* remains a member of r gets exactly one peerLeft with the peer's id, and r
\* is deleted only if no member remains
C12_RemainingMembersGetPeerLeft ==
  [][\A p \in PeerIds :
       Disconnects(p) =>
         \A r \in RoomIds :
           p \in Range(rooms[r].peers) =>
             /\ \A q \in Range(rooms[r].peers) \ {p} :
                  (q \in peers /\ socketState[q] = "open")
                    => Written(q) = <<[type |-> "peerLeft", peerId |-> p]>>
             /\ ~rooms'[r].present => Range(rooms[r].peers) = {p}]_vars

\* C13: a request of a peer that was suspended on the engine when the peer
\* disconnected is a no-op when it resumes: no transport, producer or consumer
\* is recorded, no room or registry state changes, no message is sent
C13_ResumeAfterDisconnectIsNoOp ==
  [][\A h \in Suspended :
       (socketState[h.peer] = "closed" /\ awaiting' = Unsuspend(h))
         => /\ peerTransports' = peerTransports
            /\ peerProducers' = peerProducers
            /\ peerConsumers' = peerConsumers
            /\ peers' = peers /\ peerRoomId' = peerRoomId /\ rooms' = rooms
            /\ toClient' = toClient]_vars

\* C14: once peerLeft for a peer was sent, no message that refers to that peer
\* (newProducer with its peerId, consumed with its producerPeerId) is sent:
\* on no connection does such a frame come behind the peer's peerLeft
C14_NothingRefersToPeerAfterPeerLeft ==
  \A p, q \in PeerIds :
    \A i, j \in 1 .. Len(toClient[q]) :
      (i < j /\ toClient[q][i] = [type |-> "peerLeft", peerId |-> p])
        => /\ ~(toClient[q][j].type = "newProducer" /\ toClient[q][j].peerId = p)
           /\ ~(toClient[q][j].type = "consumed" /\ toClient[q][j].producerPeerId = p)

\* C15: the frames of one connection are handled strictly one after the
\* other: the server takes no frame of a connection while the handler of an
\* earlier frame of that connection is suspended on the engine
C15_OneHandlerPerConnection ==
  [][\A p \in PeerIds :
       Arrived(p) => ~\E h \in Suspended : h.peer = p]_vars

\* C16: every peer has at most one send-direction transport and at most one
\* receive-direction transport
C16_OneTransportPerDirection ==
  \A p \in PeerIds :
    \A d \in Directions :
      Cardinality({i \in 1 .. Len(peerTransports[p]) :
                     peerTransports[p][i].direction = d}) <= 1

\* C17: handlePeerDisconnection for a peer id that is not registered (a peer
\* that was disconnected before, or an id that never connected) changes no
\* state, closes nothing and sends no message
C17_DisconnectOfUnknownPeerChangesNothing ==
  \A p \in PeerIds :
    p \notin peers =>
      disconnected(p) = [peers |-> peers, rooms |-> rooms,
                         closedTransports |-> closedTransports, toClient |-> toClient]

\* C17 happens: a peer was disconnected while the room it was in still has a
\* connected member, and an id that never connected exists
C17_DisconnectedPeerWithRoomMate ==
  \E p, q \in PeerIds :
    /\ socketState[p] = "closed" /\ p \notin peers
    /\ peerRoomId[p] \in RoomIds
    /\ q \in Range(rooms[peerRoomId[p]].peers)
    /\ q \in peers /\ socketState[q] = "open"

\* C18: on the disconnect of a peer its transports are closed first, then the
\* peer is removed from its room and peerLeft is sent, and only then is the
\* peer deleted from the registry
C18_DisconnectionInOrder ==
  [][\A p \in PeerIds :
       LET closed == Ids(peerTransports[p]) \subseteq closedTransports
           leftRoom == hasRoomToLeave(p) => p \notin Range(rooms[peerRoomId[p]].peers)
           removed == \E r \in RoomKeys :
                        p \in Range(rooms[r].peers) /\ p \notin Range(rooms'[r].peers)
           told == \E q \in PeerIds : Written(q) = <<[type |-> "peerLeft", peerId |-> p]>>
       IN /\ (removed \/ told) => (closed /\ p \in peers /\ p \in peers')
          /\ (p \in peers /\ p \notin peers') => (closed /\ leftRoom)]_vars

\* C18 happens: a disconnect is between the room removal and the registry
\* deletion; the peer's transport is closed, its peerLeft is on a room-mate's
\* connection and the peer is still registered
C18_BetweenRoomRemovalAndDeletion ==
  \E p, q \in PeerIds :
    /\ disconnecting = <<p, 2>>
    /\ p \in peers
    /\ peerTransports[p] # <<>>
    /\ Ids(peerTransports[p]) \subseteq closedTransports
    /\ toClient[q] = <<[type |-> "peerLeft", peerId |-> p]>>

\* C19: after a peer disconnected, no registered peer holds a consumer whose
\* producer belonged to that peer
C19_NoConsumerOfDisconnectedPeer ==
  \A q \in peers :
    \A i \in 1 .. Len(peerConsumers[q]) :
      socketState[peerConsumers[q][i].producerPeerId] # "closed"

\* C20: a peer obtains a consumer for another peer's producer only if the
\* owner is a member of a room the peer is a member of
C20_ConsumerOnlyWithinRoom ==
  [][\A p \in PeerIds :
       (Len(peerConsumers'[p]) = Len(peerConsumers[p]) + 1)
         => LET owner == peerConsumers'[p][Len(peerConsumers'[p])].producerPeerId
            IN owner # p =>
                 \E r \in RoomIds :
                   /\ rooms[r].present
                   /\ {p, owner} \subseteq Range(rooms[r].peers)]_vars

\* the frame the server takes from p's connection in this step
Request(p) == Head(toServer[p])

\* the last frame on p's connection from the server is the error reply
LastIsError(p, message) ==
  /\ toClient[p] # <<>>
  /\ toClient[p][Len(toClient[p])] = [type |-> "error", message |-> message]

\* C21: a consume request for an existing producer with capabilities the
\* router cannot serve is answered with the error 'Cannot consume' to the
\* requester alone; no consumer is created and no handler is suspended for
\* it, every connection stays as it was, and the peers, rooms, engine objects
\* and the handlers already suspended are untouched, so that every other
\* consume request, outstanding or later, runs as if this one had not been
\* made: a request that can be served is suspended on the engine
C21_CannotConsumeFailsAlone ==
  [][\A p \in PeerIds :
       Arrived(p) /\ Request(p).type = "consume" /\ HasPayload(Request(p))
         /\ producerPeersOf(Request(p).producerId) # {} =>
           /\ Request(p).rtpCapabilities = "other" =>
                /\ Written(p) = <<[type |-> "error", message |-> "Cannot consume"]>>
                /\ \A q \in PeerIds \ {p} : toClient'[q] = toClient[q]
                /\ UNCHANGED <<serverVars, socketState>>
           /\ Request(p).rtpCapabilities = "device" /\ recvTransportOf(p) # <<>> =>
                /\ \E h \in BagToSet(awaiting') :
                     /\ h.op = "consume" /\ h.peer = p
                     /\ h.producerId = Request(p).producerId
                     /\ awaiting' = Suspend(h)
                /\ toClient' = toClient]_vars

\* a consume request of one peer was refused with 'Cannot consume' while the
\* consume request of another peer is suspended on the engine
C21_RefusedWhileAnotherIsOutstanding ==
  \E p \in PeerIds : \E h \in Suspended :
    /\ LastIsError(p, "Cannot consume")
    /\ h.op = "consume" /\ h.peer # p

\* the consumers the engine has created for p's peer object
ConsumerIds(p) == Ids(peerConsumers[p])

\* C22: a consumer is not resumed in the step that creates it, and the step
\* that resumes it is the continuation of a resumePausedConsumer handler of
\* the peer that owns it, for that consumer id; such a handler is suspended
\* only when the server takes a resumeConsumer frame for that id from the
\* owner's connection
C22_PausedUntilOwnerResumes ==
  [][/\ \A p \in PeerIds : \A c \in ConsumerIds(p)' \ ConsumerIds(p) :
          c \notin resumedConsumers'
     /\ \A c \in resumedConsumers' \ resumedConsumers :
          \E h \in Suspended :
            /\ h.op = "resumeConsumer" /\ h.consumerId = c
            /\ c \in ConsumerIds(h.peer)
            /\ awaiting' = Unsuspend(h)
     /\ \A h \in BagToSet(awaiting') :
          h.op = "resumeConsumer" /\ awaiting' = Suspend(h) =>
            /\ Arrived(h.peer)
            /\ Request(h.peer) = [type |-> "resumeConsumer", consumerId |-> h.consumerId]
            /\ h.consumerId \in ConsumerIds(h.peer)]_vars

\* a peer has two consumers, one it has resumed and one still paused
C22_OneResumedOnePaused ==
  \E p \in PeerIds : \E c, d \in ConsumerIds(p) :
    c \in resumedConsumers /\ d \notin resumedConsumers

\* C23: a resumeConsumer frame for an id in the requester's consumers Map is
\* accepted whether or not the consumer was resumed before: no error is
\* written and the handler is suspended on consumer.resume; when it goes on it
\* writes consumerResumed for that id to the requester, and if the consumer
\* was resumed already the peers, the rooms and the engine are as before
C23_ResumeConsumerIdempotent ==
  [][/\ \A p \in PeerIds :
          Arrived(p) /\ Request(p).type = "resumeConsumer"
            /\ HasPayload(Request(p))
            /\ Request(p).consumerId \in ConsumerIds(p) =>
              /\ toClient' = toClient
              /\ awaiting' = Suspend([op |-> "resumeConsumer", peer |-> p,
                                      consumerId |-> Request(p).consumerId])
     /\ \A h \in Suspended :
          h.op = "resumeConsumer" /\ awaiting' = Unsuspend(h) =>
            /\ socketState[h.peer] = "open" =>
                 Written(h.peer) =
                   <<[type |-> "consumerResumed", consumerId |-> h.consumerId]>>
            /\ h.consumerId \in resumedConsumers'
            /\ h.consumerId \in resumedConsumers =>
                 UNCHANGED <<peerVars, rooms, engineVars>>]_vars

\* the second resumeConsumer request for a consumer was accepted: its handler
\* is suspended on the engine and the consumer is resumed already
C23_SecondResumeAccepted ==
  \E h \in Suspended : h.op = "resumeConsumer" /\ h.consumerId \in resumedConsumers

\* the step writes this error reply to p's connection and nothing to any
\* other, and leaves the peers, the rooms, the engine, the suspended handlers
\* and every socket as they were
RefusedWith(p, message) ==
  /\ Written(p) = <<[type |-> "error", message |-> message]>>
  /\ \A q \in PeerIds \ {p} : toClient'[q] = toClient[q]
  /\ UNCHANGED <<serverVars, socketState>>

\* C24: a connectTransport or produce frame whose transportId is not in the
\* requester's transports Map, and a resumeConsumer frame whose consumerId is
\* not in the requester's consumers Map, is answered with an error reply to
\* the requester alone and changes nothing else, whether the id was never
\* handed out or belongs to another peer
C24_UnknownIdRefused ==
  [][\A p \in PeerIds : Arrived(p) /\ HasPayload(Request(p)) =>
       /\ Request(p).type \in {"connectTransport", "produce"}
            /\ Request(p).transportId \notin Ids(peerTransports[p]) =>
              RefusedWith(p, "Transport not found")
       /\ Request(p).type = "resumeConsumer"
            /\ Request(p).consumerId \notin ConsumerIds(p) =>
              RefusedWith(p, "Consumer not found")]_vars

\* a peer without a transport of its own named a transport in a request and
\* was refused, while another peer has a transport
C24_OtherPeersTransportRefused ==
  \E p, q \in PeerIds :
    /\ p # q
    /\ LastIsError(p, "Transport not found")
    /\ peerTransports[p] = <<>>
    /\ peerTransports[q] # <<>>

\* the handling of this message of p raises an error: the message is not
\* JSON, the handler of its type reads a payload that is missing, or the
\* handler reaches one of its throw statements
Throws(p, data) ==
  \/ data = MalformedMessage
  \/ data.type \in MessageTypes \ {"getRouterRtpCapabilities"} /\ ~HasPayload(data)
  \/ /\ HasPayload(data)
     /\ \/ /\ data.type \in {"connectTransport", "produce"}
           /\ data.transportId \notin Ids(peerTransports[p])
        \/ /\ data.type = "consume"
           /\ \/ producerPeersOf(data.producerId) = {}
              \/ data.rtpCapabilities # "device"
              \/ recvTransportOf(p) = <<>>
        \/ /\ data.type = "resumeConsumer"
           /\ data.consumerId \notin ConsumerIds(p)

\* C25: when the handling of a message of a peer raises an error, exactly one
\* frame is written to that peer's connection, an error reply, and no frame
\* is written to any other connection; and an error reply is written to a
\* connection only in the step that handles a message of that connection
\* which raises an error
C25_OneErrorReplyToTheRequester ==
  [][\A p \in PeerIds :
       /\ Arrived(p) /\ Throws(p, Request(p)) =>
            /\ Written(p) # <<>>
            /\ Written(p)[1].type = "error"
            /\ \A q \in PeerIds \ {p} : toClient'[q] = toClient[q]
       /\ Written(p) # <<>> /\ Written(p)[1].type = "error" =>
            Arrived(p) /\ Throws(p, Request(p))
       /\ Len(toClient'[p]) > Len(toClient[p]) + 1 =>
            \A i \in Len(toClient[p]) + 1 .. Len(toClient'[p]) :
              toClient'[p][i].type # "error"]_vars

\* a peer was answered with an error while another peer is in the same room
\* with it and has an open connection
C25_ErrorWithRoomMateConnected ==
  \E p, q \in PeerIds : \E r \in RoomIds :
    /\ p # q
    /\ toClient[p] # <<>> /\ toClient[p][Len(toClient[p])].type = "error"
    /\ {p, q} \subseteq Range(rooms[r].peers)
    /\ socketState[q] = "open"

\* C26: a message whose type is no case of the switch is answered with a
\* frame to the sender, changes no peer and no room, and leaves the
\* connection open
C26_UnknownTypeGetsWarningReply ==
  [][\A p \in PeerIds :
       Arrived(p) /\ Request(p) = UnknownFrame =>
         /\ Written(p) # <<>>
         /\ UNCHANGED <<peerVars, rooms>>
         /\ socketState'[p] = "open"]_vars

\* C27: a joinRoom frame whose payload has no roomId is answered with an
\* error reply to the sender alone, creates no room, adds the peer to no
\* member set and leaves the connection open
C27_JoinWithoutRoomIdRefused ==
  [][\A p \in PeerIds :
       Arrived(p) /\ Request(p).type = "joinRoom" /\ HasPayload(Request(p))
         /\ Request(p).roomId = NoRoom =>
           /\ Written(p) # <<>> /\ Written(p)[1].type = "error"
           /\ \A q \in PeerIds \ {p} : toClient'[q] = toClient[q]
           /\ rooms' = rooms
           /\ socketState'[p] = "open"]_vars

\* C28: when the server takes a joinRoom frame, the peers list of the
\* roomJoined it writes to the joiner is the member set of the room as it was
\* before the step, without the joiner, and newPeer with the joiner's id is
\* written to the connection of each of those members and to no other
C28_SnapshotBeforeInsertion ==
  [][\A p \in PeerIds :
       Arrived(p) /\ Request(p).type = "joinRoom" /\ HasPayload(Request(p))
         /\ Request(p).roomId \in RoomIds =>
         LET before == Range(rooms[Request(p).roomId].peers) \ {p}
         IN /\ Written(p) # <<>>
            /\ Written(p)[1].type = "roomJoined"
            /\ Range(Written(p)[1].peers) = before
            /\ \A q \in PeerIds \ {p} :
                 IF q \in before
                   THEN Written(q) = <<[type |-> "newPeer", peerId |-> p]>>
                   ELSE toClient'[q] = toClient[q]]_vars

\* C29: when the server takes a joinRoom frame for a room that has no member,
\* whatever happened before, the roomJoined it writes to the joiner has an
\* empty peers list and an empty existingProducers list
C29_EmptyRoomHasNoExistingProducers ==
  [][\A p \in PeerIds :
       Arrived(p) /\ Request(p).type = "joinRoom" /\ HasPayload(Request(p))
         /\ rooms[Request(p).roomId].peers = <<>> =>
           Written(p) = <<[type |-> "roomJoined", roomId |-> Request(p).roomId,
                           peers |-> <<>>, existingProducers |-> <<>>]>>]_vars

\* a peer joined a room without members while another peer with a producer
\* is in another room, and was told of no peer and no producer
C29_JoinedEmptyRoomAmongProducers ==
  \E p, q \in PeerIds : \E r, s \in RoomIds :
    /\ p # q /\ r # s
    /\ toClient[p] = <<[type |-> "roomJoined", roomId |-> r,
                        peers |-> <<>>, existingProducers |-> <<>>]>>
    /\ rooms[r].peers = <<p>>
    /\ q \in Range(rooms[s].peers)
    /\ peerProducers[q] # <<>>

\* the peers that are members of a room together with p
RoomMates(p) ==
  {q \in PeerIds \ {p} : \E r \in RoomKeys : {p, q} \subseteq Range(rooms[r].peers)}

\* C30: in the step that creates a producer, newProducer with the owner's
\* id, the producer id and the kind is written to the connection of every
\* other member of a room the owner is in, nothing is written to the
\* connection of any other peer, and produced is written to the owner's
\* connection, if it is open, and to no other
C30_NewProducerToRoomMatesOnly ==
  [][\A h \in Suspended :
       h.op = "produce" /\ awaiting' = Unsuspend(h) =>
         LET id == <<h.peer, Len(peerProducers[h.peer]) + 1>>
         IN /\ socketState[h.peer] = "open" =>
                 Written(h.peer) =
                   <<[type |-> "produced", producerId |-> id, kind |-> h.kind]>>
            /\ \A q \in PeerIds \ {h.peer} :
                 IF q \in RoomMates(h.peer)
                   THEN Written(q) = <<[type |-> "newProducer", peerId |-> h.peer,
                                        producerId |-> id, kind |-> h.kind]>>
                   ELSE toClient'[q] = toClient[q]]_vars

\* the transports, producers and consumers Maps of q's peer object
MapsOf(q) == <<peerTransports[q], peerProducers[q], peerConsumers[q]>>

\* C31: the step in which the server takes a frame of a peer, and the step
\* in which a handler of a peer goes on after its engine call, leave the
\* transports, producers and consumers Maps of every other peer as they were
C31_HandlerTouchesOwnMapsOnly ==
  [][/\ \A p \in PeerIds : Arrived(p) =>
          \A q \in PeerIds \ {p} : MapsOf(q)' = MapsOf(q)
     /\ \A h \in Suspended : awaiting' = Unsuspend(h) =>
          \A q \in PeerIds \ {h.peer} : MapsOf(q)' = MapsOf(q)]_vars

\* a peer has a consumer of another peer's producer, and that peer has no
\* consumer and no transport but the one it produces on
C31_ConsumerOfAnotherPeersProducer ==
  \E p, q \in PeerIds :
    /\ p # q
    /\ \E i \in 1 .. Len(peerConsumers[p]) : peerConsumers[p][i].producerPeerId = q
    /\ peerConsumers[q] = <<>>
    /\ Len(peerTransports[q]) = 1 /\ Len(peerProducers[q]) = 1

C33_LeftPeerIsNoMember ==
  \A p \in PeerIds :
    socketState[p] = "open" /\ stateRoomId[p] = NoRoom /\ Quiescent =>
      \A r \in RoomKeys : p \notin Range(rooms[r].peers)

\* the frames of this type among those p's browser sends in this step
SentOfType(p, type) == SelectSeq(Sent(p), LAMBDA m : m.type = type)

\* C34: the browser sends joinRoom only in the step in which it has loaded
\* the router capabilities into its device; it asks for the send transport
\* only in the step that handles roomJoined; and it asks for the receive
\* transport only in the step in which the produced reply for its audio, the
\* last of its own productions, arrives, its send transport being in place
C34_SessionBroughtUpInOrder ==
  [][\A p \in PeerIds :
       /\ SentOfType(p, "joinRoom") # <<>> =>
            Handled(p, "routerRtpCapabilities") /\ stateDevice'[p]
       /\ \A i \in 1 .. Len(Sent(p)) :
            Sent(p)[i].type = "createTransport" =>
              IF Sent(p)[i].direction = "send"
                THEN Handled(p, "roomJoined")
                ELSE /\ Handled(p, "produced")
                     /\ stateSendTransport[p] # NoId
                     /\ producing[p] = Kinds[Len(Kinds)]
                     /\ Frame(p).kind = Kinds[Len(Kinds)]
                     /\ producing'[p] = NoKind]_vars

\* a browser has its send transport, has produced video and audio, and has
\* its receive transport
C34_SessionIsUp ==
  \E p \in PeerIds :
    /\ stateSendTransport[p] # NoId
    /\ stateRecvTransport[p] # NoId
    /\ Len(peerProducers[p]) = Len(Kinds)
    /\ producing[p] = NoKind

\* C35: when the server takes a joinRoom frame of p for a room that another
\* peer q is a member of, then in that step q is in the peers list of the
\* roomJoined written to p, or newPeer for p is written to q: the two never
\* both miss each other
C35_JoinersLearnOfEachOther ==
  [][\A p \in PeerIds :
       Arrived(p) /\ Request(p).type = "joinRoom" /\ HasPayload(Request(p)) =>
         /\ Written(p) # <<>> /\ Written(p)[1].type = "roomJoined"
         /\ \A q \in Range(rooms[Request(p).roomId].peers) \ {p} :
              \/ q \in Range(Written(p)[1].peers)
              \/ Written(q) = <<[type |-> "newPeer", peerId |-> p]>>]_vars

\* the second of two peers has just joined the room of the first: it was
\* told of the first in roomJoined and the first was sent newPeer
C35_BothLearned ==
  \E p, q \in PeerIds : \E r \in RoomIds :
    /\ p # q
    /\ rooms[r].peers = <<q, p>>
    /\ toClient[p] # <<>>
    /\ toClient[p][1].type = "roomJoined" /\ toClient[p][1].peers = <<q>>
    /\ toClient[q] = <<[type |-> "newPeer", peerId |-> p]>>

\* p owns the producer x and is a member of the room r together with q, both
\* registered and connected
ToBeAnnounced(p, x, q, r) ==
  /\ {p, q} \subseteq peers
  /\ socketState[p] = "open" /\ socketState[q] = "open"
  /\ {p, q} \subseteq Range(rooms[r].peers)
  /\ x \in Ids(peerProducers[p])

\* the frame written to q in this step announces the producer x
Announces(q, x) ==
  /\ Written(q) # <<>>
  /\ \/ Written(q)[1].type = "newProducer" /\ Written(q)[1].producerId = x
     \/ /\ Written(q)[1].type = "roomJoined"
        /\ \E i \in 1 .. Len(Written(q)[1].existingProducers) :
             \E j \in 1 .. Len(Written(q)[1].existingProducers[i].producers) :
               Written(q)[1].existingProducers[i].producers[j].producerId = x

\* C36: in the step after which a producer of a member of a room and another
\* member of that room are together for the first time, because the producer
\* is created or because either of the two joins, the producer is announced
\* to the other member, by newProducer or in the existingProducers of its
\* roomJoined
C36_EveryProducerAnnounced ==
  [][\A p \in PeerIds : \A q \in PeerIds \ {p} : \A r \in RoomIds :
       \A x \in Ids(peerProducers'[p]) :
         ToBeAnnounced(p, x, q, r)' /\ ~ToBeAnnounced(p, x, q, r) =>
           Announces(q, x)]_vars

\* the positions of q's connection that hold a newProducer frame for x
NewProducerAt(q, x) ==
  {i \in 1 .. Len(toClient[q]) :
     toClient[q][i].type = "newProducer" /\ toClient[q][i].producerId = x}

\* the positions of q's connection that hold a roomJoined frame listing x
RoomJoinedWith(q, x) ==
  {i \in 1 .. Len(toClient[q]) :
     /\ toClient[q][i].type = "roomJoined"
     /\ \E e \in Range(toClient[q][i].existingProducers) :
          \E ref \in Range(e.producers) : ref.producerId = x}

\* C37: among all the frames the server has written to a connection, a
\* producer id is in at most one newProducer frame, and not both in a
\* newProducer frame and in the existingProducers of a roomJoined frame
C37_AnnouncedAtMostOnce ==
  \A q \in PeerIds : \A p \in PeerIds : \A x \in Ids(peerProducers[p]) :
    /\ Cardinality(NewProducerAt(q, x)) <= 1
    /\ NewProducerAt(q, x) = {} \/ RoomJoinedWith(q, x) = {}

\* C38: every id in the member set of a room is the id of a peer in the
\* peers registry
C38_MembersAreRegistered ==
  \A r \in RoomIds : Range(rooms[r].peers) \subseteq peers

\* C39: once a peer has disconnected and none of its handlers is suspended on
\* the engine any more, every transport the engine created for it is closed
C39_TransportsClosedAfterDisconnect ==
  \A p \in PeerIds :
    socketState[p] = "closed" /\ (\A h \in Suspended : h.peer # p) =>
      Ids(peerTransports[p]) \subseteq closedTransports

\* the frames the server wrote to p's connection in this step
FramesWritten(p) ==
  IF Len(toClient'[p]) >= Len(toClient[p])
       /\ SubSeq(toClient'[p], 1, Len(toClient[p])) = toClient[p]
    THEN SubSeq(toClient'[p], Len(toClient[p]) + 1, Len(toClient'[p]))
    ELSE <<>>

\* the success message that matches a request type
SuccessOf ==
  [getRouterRtpCapabilities |-> "routerRtpCapabilities",
   joinRoom |-> "roomJoined",
   createTransport |-> "transportCreated",
   connectTransport |-> "transportConnected",
   produce |-> "produced",
   consume |-> "consumed",
   resumeConsumer |-> "consumerResumed"]

ReplyTypes == {SuccessOf[t] : t \in MessageTypes} \cup {"error"}

\* the replies among the frames written to p's connection in this step
Replies(p) == SelectSeq(FramesWritten(p), LAMBDA m : m.type \in ReplyTypes)

\* the frames are one reply to a request of the type: its success message or
\* an error
OneReplyTo(type, frames) ==
  Len(frames) = 1 /\ frames[1].type \in {SuccessOf[type], "error"}

\* this step is the continuation of the suspended handler h
Continued(h) == h \in Suspended /\ awaiting' = Unsuspend(h)

\* C40: a request of one of the seven types from a connected peer gets exactly
\* one reply, its success message or an error: the step that takes the
\* request either writes that one reply and suspends no handler, or writes
\* no reply and suspends one handler for it; the continuation of a suspended
\* handler writes that one reply if the peer is still connected; and no other
\* step writes a reply to any connection
C40_ExactlyOneReply ==
  [][/\ \A p \in PeerIds :
          Arrived(p) /\ Request(p).type \in MessageTypes =>
            /\ \/ /\ OneReplyTo(Request(p).type, Replies(p))
                  /\ awaiting' = awaiting
               \/ /\ Replies(p) = <<>>
                  /\ \E h \in BagToSet(awaiting') :
                       /\ h.peer = p /\ h.op = Request(p).type
                       /\ awaiting' = Suspend(h)
            /\ \A q \in PeerIds \ {p} : Replies(q) = <<>>
     /\ \A h \in Suspended :
          Continued(h) =>
            /\ socketState[h.peer] = "open" => OneReplyTo(h.op, Replies(h.peer))
            /\ \A q \in PeerIds \ {h.peer} : Replies(q) = <<>>
     /\ \A p \in PeerIds :
          Replies(p) # <<>> =>
            \/ Arrived(p) /\ Request(p) = MalformedMessage
            \/ Arrived(p) /\ Request(p).type \in MessageTypes
            \/ \E h \in Suspended : h.peer = p /\ Continued(h)]_vars

\* the continuation of a suspended consume request has written its one reply,
\* consumed, to the connection of the requester
C40_ConsumedAfterSuspension ==
  \E p \in PeerIds :
    /\ socketState[p] = "open"
    /\ Len(toClient[p]) = 1 /\ toClient[p][1].type = "consumed"
    /\ \A h \in Suspended : h.peer # p

====
